---- MODULE Spec2Model ----
(***************************************************************************)
(* Model of r2, a command-line client for Cloudflare R2 (src/src/main.rs). *)
(* One behaviour is one process run of main(), starting right after        *)
(* Args::parse() has returned the parsed command: credential resolution,   *)
(* client construction, then the single subcommand branch with its remote  *)
(* calls.  Text that the code splits or concatenates (bucket names, object *)
(* keys, the cp destination) is a sequence of one-character strings.       *)
(* The remote store is the environment: a call that succeeds has its       *)
(* effect on the set of stored objects, a call that fails has none.        *)
(***************************************************************************)
EXTENDS Integers, Sequences, FiniteSets, TLC

VARIABLES
    env,          \* the process environment: R2_* variables and HOME
    file,         \* the file at <home>/.r2/config
    command,      \* args.command as returned by Args::parse()
    localFile,    \* cp's src: "unread", or the outcome of tokio::fs::read
    objects,      \* remote store: the set of <<bucket, key>> present
    objects0,     \* the remote store when the process started
    pc,           \* position of main()
    resolved,     \* the tuple (access_key_id, secret_access_key, account_id)
    origin,       \* the match arm that produced resolved
    readHome,     \* env::var("HOME") was evaluated
    openedPath,   \* paths handed to File::open
    client,       \* the Client built at line 137
    built,        \* number of times the client configuration was built
    branches,     \* match arms of args.command entered, in order
    calls,        \* remote calls issued, in order, with their outcome
    inflight,     \* indices into calls of the calls awaiting a response
    localReads,   \* number of tokio::fs::read calls on cp's src
    bucketKey,    \* cp's (bucket, key) after the split
    result        \* what main() returned

vars == <<env, file, command, localFile, objects, objects0, pc, resolved, origin,
          readHome, openedPath, client, built, branches, calls, inflight,
          localReads, bucketKey, result>>

----------------------------------------------------------------------------
(* Bounds and input alphabets *)

MaxDstLen == 3

Chars == {"a", "/"}

RECURSIVE SeqsUpTo(_)
SeqsUpTo(n) ==
    IF n = 0 THEN {<< >>}
    ELSE LET shorter == SeqsUpTo(n - 1)
         IN  shorter \cup {Append(s, c) : s \in {t \in shorter : Len(t) = n - 1}, c \in Chars}

Buckets == {<<"b">>}
Keys == {<<"x">>, <<"d", "/", "y">>}

----------------------------------------------------------------------------
(* The environment: std::env::var *)

Unset == [set |-> FALSE, unicode |-> TRUE, val |-> ""]
NotUnicode == [set |-> TRUE, unicode |-> FALSE, val |-> ""]
Value(s) == [set |-> TRUE, unicode |-> TRUE, val |-> s]

EnvValues(vals) == {Unset, NotUnicode} \cup {Value(s) : s \in vals}

Environments ==
    [R2_ACCESS_KEY_ID : EnvValues({"", "ek"}),
     R2_SECRET_ACCESS_KEY : EnvValues({"", "es"}),
     R2_ACCOUNT_ID : EnvValues({"", "ea"}),
     HOME : EnvValues({"/h"})]

\* env::var(name): Ok(value) when the variable is set to valid Unicode,
\* Err(NotPresent) or Err(NotUnicode) otherwise.
env_var(v) == [ok |-> v.set /\ v.unicode, val |-> v.val]

----------------------------------------------------------------------------
(* The config file and toml::from_str::<Config> *)

Absent == [present |-> FALSE, val |-> ""]
Field(s) == [present |-> TRUE, val |-> s]
Fields(vals) == {Absent} \cup {Field(s) : s \in vals}

CredentialsSections ==
    {[present |-> FALSE, access_key_id |-> Absent, secret_access_key |-> Absent]}
    \cup [present : {TRUE}, access_key_id : Fields({"", "fk"}),
          secret_access_key : Fields({"", "fs"})]

MetadataSections ==
    {[present |-> FALSE, account_id |-> Absent]}
    \cup [present : {TRUE}, account_id : Fields({"", "fa"})]

NoDocument ==
    [credentials |-> [present |-> FALSE, access_key_id |-> Absent, secret_access_key |-> Absent],
     metadata |-> [present |-> FALSE, account_id |-> Absent]]

\* status: "missing" (File::open fails), "unreadable" (read_to_string fails),
\* "malformed" (not TOML, or a field of the wrong type), "toml" (a TOML
\* document whose tables and string fields are those of doc).
Files ==
    {[status |-> s, doc |-> NoDocument] : s \in {"missing", "unreadable", "malformed"}}
    \cup [status : {"toml"}, doc : [credentials : CredentialsSections, metadata : MetadataSections]]

\* Variant of from_str in which a missing table or field deserializes to the
\* empty string, as under #[serde(default)].
from_str_default(doc) ==
    [ok |-> TRUE,
     config |-> [credentials |-> [access_key_id |-> doc.credentials.access_key_id.val,
                                  secret_access_key |-> doc.credentials.secret_access_key.val],
                 metadata |-> [account_id |-> doc.metadata.account_id.val]]]

\* #[derive(Deserialize)] on Config, Credentials, Metadata: every field is
\* required, there is no #[serde(default)].
from_str(doc) ==
    IF /\ doc.credentials.present
       /\ doc.credentials.access_key_id.present
       /\ doc.credentials.secret_access_key.present
       /\ doc.metadata.present
       /\ doc.metadata.account_id.present
    THEN [ok |-> TRUE,
          config |-> [credentials |-> [access_key_id |-> doc.credentials.access_key_id.val,
                                       secret_access_key |-> doc.credentials.secret_access_key.val],
                      metadata |-> [account_id |-> doc.metadata.account_id.val]]]
    ELSE [ok |-> FALSE,
          config |-> [credentials |-> [access_key_id |-> "", secret_access_key |-> ""],
                      metadata |-> [account_id |-> ""]]]

config_path(home) == <<home, ".r2", "config">>

----------------------------------------------------------------------------
(* Credential resolution, main.rs lines 98-118 *)

NoTriple == <<"", "", "">>

Failed(err, home, opened) ==
    [ok |-> FALSE, triple |-> NoTriple, origin |-> "none",
     readHome |-> home, opened |-> opened, error |-> err]

\* Variant of FromFile in which a variable that is set overrides the
\* corresponding field of the file.
FromFileOverridden(e, f) ==
    LET home == env_var(e.HOME)
        path == config_path(home.val)
        parsed == from_str(f.doc)
        key == env_var(e.R2_ACCESS_KEY_ID)
        secret == env_var(e.R2_SECRET_ACCESS_KEY)
        account == env_var(e.R2_ACCOUNT_ID)
    IN  IF ~home.ok THEN Failed("VarError", TRUE, {})
        ELSE IF f.status \in {"missing", "unreadable"} THEN Failed("io::Error", TRUE, {path})
        ELSE IF f.status = "malformed" \/ ~parsed.ok THEN Failed("toml::de::Error", TRUE, {path})
        ELSE [ok |-> TRUE,
              triple |-> <<IF key.ok THEN key.val ELSE parsed.config.credentials.access_key_id,
                           IF secret.ok THEN secret.val ELSE parsed.config.credentials.secret_access_key,
                           IF account.ok THEN account.val ELSE parsed.config.metadata.account_id>>,
              origin |-> "file", readHome |-> TRUE, opened |-> {path}, error |-> "none"]

\* The _ arm of the match: HOME, the file, the parse, then the three fields.
FromFile(e, f) ==
    LET home == env_var(e.HOME)
        path == config_path(home.val)
        parsed == from_str(f.doc)
    IN  IF ~home.ok THEN Failed("VarError", TRUE, {})
        ELSE IF f.status \in {"missing", "unreadable"} THEN Failed("io::Error", TRUE, {path})
        ELSE IF f.status = "malformed" \/ ~parsed.ok THEN Failed("toml::de::Error", TRUE, {path})
        ELSE [ok |-> TRUE,
              triple |-> <<parsed.config.credentials.access_key_id,
                           parsed.config.credentials.secret_access_key,
                           parsed.config.metadata.account_id>>,
              origin |-> "file", readHome |-> TRUE, opened |-> {path}, error |-> "none"]

\* Variant of Resolve that consults the file first and the environment only
\* when the file yields nothing.
ResolveFileFirst(e, f) ==
    LET key == env_var(e.R2_ACCESS_KEY_ID)
        secret == env_var(e.R2_SECRET_ACCESS_KEY)
        account == env_var(e.R2_ACCOUNT_ID)
        fromFile == FromFile(e, f)
    IN  IF fromFile.ok \/ ~(key.ok /\ secret.ok /\ account.ok)
        THEN fromFile
        ELSE [ok |-> TRUE, triple |-> <<key.val, secret.val, account.val>>,
              origin |-> "env", readHome |-> fromFile.readHome,
              opened |-> fromFile.opened, error |-> "none"]

\* The match on the three env::var results.
Resolve(e, f) ==
    LET key == env_var(e.R2_ACCESS_KEY_ID)
        secret == env_var(e.R2_SECRET_ACCESS_KEY)
        account == env_var(e.R2_ACCOUNT_ID)
    IN  IF key.ok /\ secret.ok /\ account.ok
        THEN [ok |-> TRUE, triple |-> <<key.val, secret.val, account.val>>,
              origin |-> "env", readHome |-> FALSE, opened |-> {}, error |-> "none"]
        ELSE FromFile(e, f)

----------------------------------------------------------------------------
(* Client construction, main.rs lines 120-137 *)

NoClient == [built |-> FALSE, endpoint_url |-> << >>, region |-> "",
             access_key_id |-> "", secret_access_key |-> "", provider_name |-> ""]

r2_endpoint(account_id) == <<"https://", account_id, ".r2.cloudflarestorage.com">>

NewClient(triple) ==
    [built |-> TRUE, endpoint_url |-> r2_endpoint(triple[3]), region |-> "auto",
     access_key_id |-> triple[1], secret_access_key |-> triple[2],
     provider_name |-> "r2"]

----------------------------------------------------------------------------
(* The parsed command, main.rs lines 19-75 *)

Dsts == SeqsUpTo(MaxDstLen)

Commands ==
    {[variant |-> "None"], [variant |-> "Ls"]}
    \cup [variant : {"Ls"}, bucket : Buckets]
    \cup [variant : {"Mv"}, bucket : Buckets, src : Keys, dst : Keys]
    \cup [variant : {"Cp"}, src : {<<"f">>}, dst : Dsts]
    \cup [variant : {"Rm"}, bucket : Buckets, key : Keys]

HasBucket(c) == "bucket" \in DOMAIN c

----------------------------------------------------------------------------
(* str::splitn(2, '/'), main.rs line 171 *)

HasSlash(s) == \E i \in 1..Len(s) : s[i] = "/"

\* Variant of FirstSlash: the position of the last '/', as rsplitn would use.
LastSlash(s) == CHOOSE i \in 1..Len(s) : s[i] = "/" /\ \A j \in (i + 1)..Len(s) : s[j] # "/"

FirstSlash(s) == CHOOSE i \in 1..Len(s) : s[i] = "/" /\ \A j \in 1..(i - 1) : s[j] # "/"

\* Variant of splitn2 that always yields two parts, the second one empty when
\* there is no '/'.
splitn2_padded(s) ==
    IF HasSlash(s)
    THEN <<SubSeq(s, 1, FirstSlash(s) - 1), SubSeq(s, FirstSlash(s) + 1, Len(s))>>
    ELSE <<s, << >> >>

\* At most two parts: the text before the first '/', and everything after it.
splitn2(s) ==
    IF HasSlash(s)
    THEN <<SubSeq(s, 1, FirstSlash(s) - 1), SubSeq(s, FirstSlash(s) + 1, Len(s))>>
    ELSE <<s>>

----------------------------------------------------------------------------
(* Outcomes of main() *)

Running == [done |-> FALSE, ok |-> FALSE, error |-> "none"]
Success == [done |-> TRUE, ok |-> TRUE, error |-> "none"]
Failure(err) == [done |-> TRUE, ok |-> FALSE, error |-> err]

UsageMessage == "Destination must be in format bucket/key"

----------------------------------------------------------------------------
(* Remote calls *)

Issue(call) ==
    /\ calls' = Append(calls, call @@ [outcome |-> "pending"])
    /\ inflight' = inflight \cup {Len(calls) + 1}

\* The response to the one call in flight.
Respond(ok) ==
    LET i == CHOOSE j \in inflight : TRUE
    IN  /\ calls' = [calls EXCEPT ![i] = [calls[i] EXCEPT !.outcome = IF ok THEN "ok" ELSE "error"]]
        /\ inflight' = inflight \ {i}

\* What the store can answer: a copy of an absent source cannot succeed.
CopyCanSucceed(bucket, src) == <<bucket, src>> \in objects

----------------------------------------------------------------------------
Init ==
    /\ env \in Environments
    /\ file \in Files
    /\ command \in Commands
    /\ localFile = "unread"
    /\ objects \in SUBSET (Buckets \X Keys)
    /\ objects0 = objects
    /\ pc = "resolve"
    /\ resolved = NoTriple
    /\ origin = "none"
    /\ readHome = FALSE
    /\ openedPath = {}
    /\ client = NoClient
    /\ built = 0
    /\ branches = << >>
    /\ calls = << >>
    /\ inflight = {}
    /\ localReads = 0
    /\ bucketKey = << >>
    /\ result = Running

\* lines 98-118
ResolveCredentials ==
    /\ pc = "resolve"
    /\ LET r == Resolve(env, file)
       IN  /\ resolved' = r.triple
           /\ origin' = r.origin
           /\ readHome' = r.readHome
           /\ openedPath' = r.opened
           /\ IF r.ok
              THEN pc' = "build" /\ result' = result
              ELSE pc' = "exit" /\ result' = Failure(r.error)
    /\ UNCHANGED <<env, file, command, localFile, objects, objects0, client, built,
                   branches, calls, inflight, localReads, bucketKey>>

\* lines 120-137
BuildClient ==
    /\ pc = "build"
    /\ client' = NewClient(resolved)
    /\ built' = built + 1
    /\ pc' = "dispatch"
    /\ UNCHANGED <<env, file, command, localFile, objects, objects0, resolved, origin,
                   readHome, openedPath, branches, calls, inflight, localReads,
                   bucketKey, result>>

inputs == <<env, file, command, objects0>>
resolution == <<resolved, origin, readHome, openedPath>>
clientVars == <<client, built>>

\* lines 140-141: None | Some(Commands::Ls { bucket: None })
LsBuckets ==
    /\ pc = "dispatch"
    /\ command.variant = "None" \/ (command.variant = "Ls" /\ ~HasBucket(command))
    /\ branches' = Append(branches, "ListBuckets")
    /\ Issue([op |-> "list_buckets"])
    /\ pc' = "list_buckets"
    /\ UNCHANGED <<inputs, localFile, resolution, clientVars, objects, localReads, bucketKey, result>>

\* lines 141-145: the response, the ? and the printing loop
LsBucketsDone ==
    /\ pc = "list_buckets"
    /\ \E ok \in BOOLEAN :
          /\ Respond(ok)
          /\ result' = IF ok THEN Success ELSE Failure("SdkError")
    /\ pc' = "exit"
    /\ UNCHANGED <<inputs, localFile, resolution, clientVars, objects, branches, localReads, bucketKey>>

\* lines 146-149: Some(Commands::Ls { bucket: Some(bucket) })
LsObjects ==
    /\ pc = "dispatch"
    /\ command.variant = "Ls" /\ HasBucket(command)
    /\ branches' = Append(branches, "ListObjects")
    /\ Issue([op |-> "list_objects_v2", bucket |-> command.bucket])
    /\ pc' = "list_objects_v2"
    /\ UNCHANGED <<inputs, localFile, resolution, clientVars, objects, localReads, bucketKey, result>>

\* lines 149-153
LsObjectsDone ==
    /\ pc = "list_objects_v2"
    /\ \E ok \in BOOLEAN :
          /\ Respond(ok)
          /\ result' = IF ok THEN Success ELSE Failure("SdkError")
    /\ pc' = "exit"
    /\ UNCHANGED <<inputs, localFile, resolution, clientVars, objects, branches, localReads, bucketKey>>

\* lines 154-160: copy_object is sent
MvCopy ==
    /\ pc = "dispatch"
    /\ command.variant = "Mv"
    /\ branches' = Append(branches, "Move")
    /\ Issue([op |-> "copy_object", bucket |-> command.bucket,
              copy_source |-> command.bucket \o <<"/">> \o command.src,
              key |-> command.dst])
    /\ pc' = "copy_object"
    /\ UNCHANGED <<inputs, localFile, resolution, clientVars, objects, localReads, bucketKey, result>>

\* Variant of MvCopyDone without the ?: the outcome of the copy is dropped.
MvCopyDoneUnchecked ==
    /\ pc = "copy_object"
    /\ \E ok \in BOOLEAN :
          /\ ok => CopyCanSucceed(command.bucket, command.src)
          /\ Respond(ok)
          /\ objects' = IF ok THEN objects \cup {<<command.bucket, command.dst>>} ELSE objects
          /\ pc' = "mv_copied"
          /\ result' = result
    /\ UNCHANGED <<inputs, localFile, resolution, clientVars, branches, localReads, bucketKey>>

\* line 161: .await? on the copy
MvCopyDone ==
    /\ pc = "copy_object"
    /\ \E ok \in BOOLEAN :
          /\ ok => CopyCanSucceed(command.bucket, command.src)
          /\ Respond(ok)
          /\ IF ok
             THEN /\ objects' = objects \cup {<<command.bucket, command.dst>>}
                  /\ pc' = "mv_copied"
                  /\ result' = result
             ELSE /\ objects' = objects
                  /\ pc' = "exit"
                  /\ result' = Failure("SdkError")
    /\ UNCHANGED <<inputs, localFile, resolution, clientVars, branches, localReads, bucketKey>>

\* lines 163-167: delete_object is sent
MvDelete ==
    /\ pc = "mv_copied"
    /\ Issue([op |-> "delete_object", bucket |-> command.bucket, key |-> command.src])
    /\ pc' = "delete_object"
    /\ UNCHANGED <<inputs, localFile, resolution, clientVars, objects, branches, localReads, bucketKey, result>>

\* Variant of MvDeleteDone that sends the delete again when it fails.
MvDeleteDoneRetrying ==
    /\ pc = "delete_object"
    /\ \E ok \in BOOLEAN :
          /\ Respond(ok)
          /\ objects' = IF ok THEN objects \ {<<command.bucket, command.src>>} ELSE objects
          /\ result' = IF ok THEN Success ELSE result
          /\ pc' = IF ok THEN "exit" ELSE "mv_copied"
    /\ UNCHANGED <<inputs, localFile, resolution, clientVars, branches, localReads, bucketKey>>

\* line 168: .await? on the delete, then Ok(())
MvDeleteDone ==
    /\ pc = "delete_object"
    /\ \E ok \in BOOLEAN :
          /\ Respond(ok)
          /\ objects' = IF ok THEN objects \ {<<command.bucket, command.src>>} ELSE objects
          /\ result' = IF ok THEN Success ELSE Failure("SdkError")
    /\ pc' = "exit"
    /\ UNCHANGED <<inputs, localFile, resolution, clientVars, branches, localReads, bucketKey>>

\* lines 170-175: the split of dst and the length check
CpSplit ==
    /\ pc = "dispatch"
    /\ command.variant = "Cp"
    /\ branches' = Append(branches, "CopyUpload")
    /\ LET parts == splitn2(command.dst)
       IN  IF Len(parts) # 2
           THEN /\ result' = Failure(UsageMessage)
                /\ pc' = "exit"
                /\ bucketKey' = bucketKey
           ELSE /\ bucketKey' = <<parts[1], parts[2]>>
                /\ pc' = "cp_read"
                /\ result' = result
    /\ UNCHANGED <<inputs, localFile, resolution, clientVars, objects, calls, inflight, localReads>>

\* line 177: tokio::fs::read(src).await?
CpRead ==
    /\ pc = "cp_read"
    /\ localReads' = localReads + 1
    /\ \E readable \in BOOLEAN :
          IF readable
          THEN localFile' = "read" /\ pc' = "cp_put" /\ result' = result
          ELSE localFile' = "failed" /\ pc' = "exit" /\ result' = Failure("io::Error")
    /\ UNCHANGED <<inputs, resolution, clientVars, objects, branches, calls, inflight, bucketKey>>

\* lines 178-183: put_object is sent
CpPut ==
    /\ pc = "cp_put"
    /\ Issue([op |-> "put_object", bucket |-> bucketKey[1], key |-> bucketKey[2],
              body |-> command.src])
    /\ pc' = "put_object"
    /\ UNCHANGED <<inputs, localFile, resolution, clientVars, objects, branches, localReads, bucketKey, result>>

\* line 184: .await? on the put, then Ok(())
CpPutDone ==
    /\ pc = "put_object"
    /\ \E ok \in BOOLEAN :
          /\ Respond(ok)
          /\ objects' = IF ok THEN objects \cup {<<bucketKey[1], bucketKey[2]>>} ELSE objects
          /\ result' = IF ok THEN Success ELSE Failure("SdkError")
    /\ pc' = "exit"
    /\ UNCHANGED <<inputs, localFile, resolution, clientVars, branches, localReads, bucketKey>>

\* lines 186-191: Some(Commands::Rm { bucket, key })
Rm ==
    /\ pc = "dispatch"
    /\ command.variant = "Rm"
    /\ branches' = Append(branches, "Delete")
    /\ Issue([op |-> "delete_object", bucket |-> command.bucket, key |-> command.key])
    /\ pc' = "rm_delete_object"
    /\ UNCHANGED <<inputs, localFile, resolution, clientVars, objects, localReads, bucketKey, result>>

\* Variant of RmDone that returns Ok(()) whatever the response.
RmDoneSwallowing ==
    /\ pc = "rm_delete_object"
    /\ \E ok \in BOOLEAN :
          /\ Respond(ok)
          /\ objects' = IF ok THEN objects \ {<<command.bucket, command.key>>} ELSE objects
          /\ result' = Success
    /\ pc' = "exit"
    /\ UNCHANGED <<inputs, localFile, resolution, clientVars, branches, localReads, bucketKey>>

\* line 192: .await? on the delete, then Ok(())
RmDone ==
    /\ pc = "rm_delete_object"
    /\ \E ok \in BOOLEAN :
          /\ Respond(ok)
          /\ objects' = IF ok THEN objects \ {<<command.bucket, command.key>>} ELSE objects
          /\ result' = IF ok THEN Success ELSE Failure("SdkError")
    /\ pc' = "exit"
    /\ UNCHANGED <<inputs, localFile, resolution, clientVars, branches, localReads, bucketKey>>

Next ==
    \/ ResolveCredentials
    \/ BuildClient
    \/ LsBuckets
    \/ LsBucketsDone
    \/ LsObjects
    \/ LsObjectsDone
    \/ MvCopy
    \/ MvCopyDone
    \/ MvDelete
    \/ MvDeleteDone
    \/ CpSplit
    \/ CpRead
    \/ CpPut
    \/ CpPutDone
    \/ Rm
    \/ RmDone

Spec == Init /\ [][Next]_vars

----------------------------------------------------------------------------
(* Vocabulary of the properties *)

IsMv == command.variant = "Mv"
IsCp == command.variant = "Cp"

CallsOf(op) == {i \in 1..Len(calls) : calls[i].op = op}

Resolving == pc = "resolve"

EnvSet(v) == v.set
EnvNonEmpty(v) == v.set /\ ~(v.unicode /\ v.val = "")
EnvText(v) == v.set /\ v.unicode /\ v.val # ""

R2Vars == <<env.R2_ACCESS_KEY_ID, env.R2_SECRET_ACCESS_KEY, env.R2_ACCOUNT_ID>>

FileTriple == <<file.doc.credentials.access_key_id.val,
                file.doc.credentials.secret_access_key.val,
                file.doc.metadata.account_id.val>>

----------------------------------------------------------------------------
(* C1: in a run of mv, every delete-object call comes after a copy-object   *)
(* call with copy-source "<bucket>/<src>" and destination (bucket, dst)     *)
(* that has completed successfully, at most one call is in flight at any    *)
(* time, and once the copy has failed no delete-object call exists, the     *)
(* store is as it was (the source object is still there if it was), and     *)
(* main has returned an error.                                              *)
C1_CopyBeforeDelete ==
    IsMv =>
      /\ Cardinality(inflight) <= 1
      /\ \A i \in CallsOf("delete_object") :
            \E j \in 1..(i - 1) :
               /\ calls[j] = [op |-> "copy_object", bucket |-> command.bucket,
                              copy_source |-> command.bucket \o <<"/">> \o command.src,
                              key |-> command.dst, outcome |-> "ok"]
               /\ j \notin inflight
      /\ (\E j \in CallsOf("copy_object") : calls[j].outcome = "error") =>
            /\ CallsOf("delete_object") = {}
            /\ objects = objects0
            /\ (<<command.bucket, command.src>> \in objects0
                   => <<command.bucket, command.src>> \in objects)
            /\ result.done /\ ~result.ok /\ pc = "exit"

C1_Witness ==
    /\ IsMv
    /\ <<command.bucket, command.src>> \in objects0
    /\ Len(calls) = 1 /\ calls[1].op = "copy_object" /\ calls[1].outcome = "error"
    /\ result.done

(* C2: in a run of mv whose copy succeeded and whose delete failed, main    *)
(* has returned an error, source and destination objects are both in the    *)
(* bucket, and the failed delete is the last call: the run issued exactly   *)
(* the copy and the delete.                                                 *)
C2_PartialMove ==
    (/\ IsMv
     /\ \E i \in CallsOf("copy_object") : calls[i].outcome = "ok"
     /\ \E i \in CallsOf("delete_object") : calls[i].outcome = "error")
    => /\ result.done /\ ~result.ok /\ pc = "exit"
       /\ <<command.bucket, command.src>> \in objects
       /\ <<command.bucket, command.dst>> \in objects
       /\ Len(calls) = 2
       /\ calls[2].op = "delete_object" /\ calls[2].outcome = "error"
       /\ inflight = {}

C2_Witness ==
    /\ IsMv
    /\ command.src # command.dst
    /\ Len(calls) = 2 /\ calls[1].outcome = "ok" /\ calls[2].outcome = "error"
    /\ <<command.bucket, command.dst>> \notin objects0
    /\ result.done

(* C3 as stated: whenever the three R2_* variables are all set and          *)
(* non-empty, resolution returns their values without reading HOME or the   *)
(* config file, and does not fail.                                          *)
C3_SetNonEmptyUsesEnv ==
    (~Resolving /\ \A i \in 1..3 : EnvNonEmpty(R2Vars[i]))
    => /\ origin = "env"
       /\ resolved = <<R2Vars[1].val, R2Vars[2].val, R2Vars[3].val>>
       /\ ~readHome /\ openedPath = {}
       /\ pc = "exit" => branches # << >>

(* C3 amended: whenever the three R2_* variables are all set to non-empty   *)
(* valid Unicode text, resolution returns exactly their values, reads       *)
(* neither HOME nor the config file, and succeeds whatever the config file  *)
(* is.                                                                      *)
C3_TextUsesEnv ==
    (~Resolving /\ \A i \in 1..3 : EnvText(R2Vars[i]))
    => /\ resolved = <<R2Vars[1].val, R2Vars[2].val, R2Vars[3].val>>
       /\ origin = "env"
       /\ ~readHome /\ openedPath = {}
       /\ pc = "exit" => branches # << >>

C3_Witness ==
    /\ \A i \in 1..3 : EnvText(R2Vars[i])
    /\ file.status = "missing"
    /\ ~env.HOME.set
    /\ client.built
    /\ resolved = <<"ek", "es", "ea">>

(* C4: whenever at least one of the three R2_* variables is unset, the      *)
(* outcome of resolution is either failure, or the three fields of the file *)
(* at <home>/.r2/config, which was opened; no resolved value is taken from  *)
(* the environment.                                                         *)
C4_AnyUnsetUsesFile ==
    (~Resolving /\ \E i \in 1..3 : ~EnvSet(R2Vars[i]))
    => /\ readHome
       /\ origin \in {"file", "none"}
       /\ origin = "file" =>
             /\ file.status = "toml"
             /\ file.doc.credentials.access_key_id.present
             /\ file.doc.credentials.secret_access_key.present
             /\ file.doc.metadata.account_id.present
             /\ resolved = FileTriple
             /\ openedPath = {<<env.HOME.val, ".r2", "config">>}
       /\ origin = "none" =>
             /\ result.done /\ ~result.ok
             /\ ~client.built /\ calls = << >>
       /\ (env.HOME.set /\ env.HOME.unicode /\ file.status = "toml"
           /\ file.doc.credentials.access_key_id.present
           /\ file.doc.credentials.secret_access_key.present
           /\ file.doc.metadata.account_id.present) => origin = "file"

C4_Witness ==
    /\ env.R2_ACCESS_KEY_ID = Value("ek")
    /\ env.R2_SECRET_ACCESS_KEY = Value("es")
    /\ ~env.R2_ACCOUNT_ID.set
    /\ client.built
    /\ resolved = <<"fk", "fs", "fa">>

(* C5: whenever the client has been constructed, the three resolved values  *)
(* are non-empty, and the environment arm was taken only with three         *)
(* non-empty variables.                                                     *)
C5_ResolvedNonEmpty ==
    client.built =>
       /\ \A i \in 1..3 : resolved[i] # ""
       /\ client.endpoint_url[2] # ""
       /\ origin = "env" => \A i \in 1..3 : EnvText(R2Vars[i])

(* C6 as stated: every finished run of cp whose dst has no '/' has failed   *)
(* with the usage error, has not read the local file and has issued no      *)
(* remote call.                                                             *)
C6_NoSlashUsageError ==
    (IsCp /\ ~HasSlash(command.dst)) =>
       /\ localReads = 0 /\ localFile = "unread"
       /\ calls = << >>
       /\ result.done => result = Failure(UsageMessage)

(* C6 amended: in every run of cp whose dst has no '/', the local file is   *)
(* never read and no remote call is issued, the run never succeeds, and if  *)
(* credential resolution succeeded the run fails with the usage error       *)
(* "Destination must be in format bucket/key"; if resolution failed, the    *)
(* run has failed with the resolution error and the cp branch was not       *)
(* entered.                                                                 *)
C6_NoSlashNoReadNoCall ==
    (IsCp /\ ~HasSlash(command.dst)) =>
       /\ localReads = 0 /\ localFile = "unread"
       /\ calls = << >> /\ inflight = {}
       /\ bucketKey = << >>
       /\ result.done => ~result.ok
       /\ (result.done /\ origin # "none") => result = Failure(UsageMessage)
       /\ (result.done /\ origin = "none") =>
              result.error # UsageMessage /\ branches = << >>

C6_Witness ==
    /\ IsCp /\ command.dst = <<"a", "a">>
    /\ branches = <<"CopyUpload">>
    /\ result = Failure(UsageMessage)

\* Every put-object call of a cp run goes to the two parts of dst around its
\* first '/', and follows a successful read of the local file.
PutsSplitOnFirstSlash ==
    \A i \in 1..Len(calls) :
       /\ calls[i].op = "put_object"
       /\ calls[i].bucket \o <<"/">> \o calls[i].key = command.dst
       /\ ~HasSlash(calls[i].bucket)
       /\ localFile = "read" /\ localReads = 1

(* C7 as stated: in every run of cp whose dst has a '/', every put-object   *)
(* call has as bucket the text of dst before its first '/' and as key all   *)
(* the text after it, it follows a successful read of the local file, and   *)
(* a finished run has issued exactly one put-object call.                   *)
C7_ExactlyOnePut ==
    (IsCp /\ HasSlash(command.dst)) =>
       /\ PutsSplitOnFirstSlash
       /\ Len(calls) <= 1
       /\ result.done => Len(calls) = 1

(* C7 amended: in every run of cp whose dst has a '/', every put-object     *)
(* call has as bucket the text of dst before its first '/' and as key all   *)
(* the text after it (further '/' kept); at most one put-object call is     *)
(* issued, only after the local file was read successfully, and exactly one *)
(* once the read has succeeded and the run has finished; a run that ended   *)
(* without reading the file has failed without a call.                      *)
C7_PutAfterReadSplitOnFirstSlash ==
    (IsCp /\ HasSlash(command.dst)) =>
       /\ PutsSplitOnFirstSlash
       /\ Len(calls) <= 1
       /\ (result.done /\ localFile = "read") => Len(calls) = 1
       /\ (result.done /\ localFile # "read") => calls = << >> /\ ~result.ok

C7_Witness ==
    /\ IsCp /\ command.dst = <<"a", "/", "/">>
    /\ Len(calls) = 1
    /\ calls[1].bucket = <<"a">> /\ calls[1].key = <<"/">>
    /\ calls[1].outcome = "ok"
    /\ result = Success

(* C8: in every run of cp whose dst does not split on its first '/' into    *)
(* two non-empty segments, the local file is not read and no remote call is *)
(* issued, a finished run has failed with the usage error when resolution   *)
(* succeeded; no put-object call has an empty bucket or an empty key.       *)
C8_EmptySegmentRejected ==
    /\ (IsCp /\ LET parts == splitn2(command.dst)
                IN  Len(parts) # 2 \/ \E i \in 1..Len(parts) : parts[i] = << >>)
       => /\ localReads = 0
          /\ calls = << >>
          /\ (result.done /\ origin # "none") => result = Failure(UsageMessage)
    /\ \A i \in CallsOf("put_object") :
          calls[i].bucket # << >> /\ calls[i].key # << >>

(* C9: in every run whose environment lacks a usable R2_* variable and      *)
(* whose HOME is undeterminable or whose config file is missing,            *)
(* unreadable, malformed or lacks a section or a field, nothing is resolved *)
(* (no default stands in for a missing field), no client is constructed, no *)
(* branch is entered, no remote call is issued and main returns an error;   *)
(* and whenever a remote call has been issued, resolution had succeeded and *)
(* the client configuration was built exactly once, from the resolved       *)
(* values.                                                                  *)
ConfigUnusable ==
    \/ ~(env.HOME.set /\ env.HOME.unicode)
    \/ file.status \in {"missing", "unreadable", "malformed"}
    \/ ~file.doc.credentials.present
    \/ ~file.doc.metadata.present
    \/ ~file.doc.credentials.access_key_id.present
    \/ ~file.doc.credentials.secret_access_key.present
    \/ ~file.doc.metadata.account_id.present

ResolutionFails ==
    /\ \E i \in 1..3 : ~(R2Vars[i].set /\ R2Vars[i].unicode)
    /\ ConfigUnusable

C9_FailedResolutionStops ==
    /\ (~Resolving /\ ResolutionFails) =>
          /\ resolved = NoTriple /\ origin = "none"
          /\ client = NoClient /\ built = 0
          /\ branches = << >>
          /\ calls = << >> /\ inflight = {}
          /\ pc = "exit" /\ result.done /\ ~result.ok
          /\ result.error \in {"VarError", "io::Error", "toml::de::Error"}
    /\ calls # << >> =>
          /\ ~ResolutionFails /\ origin \in {"env", "file"}
          /\ built = 1
          /\ client = NewClient(resolved)
    /\ built <= 1

C9_Witness ==
    /\ ~env.R2_ACCOUNT_ID.set
    /\ env.HOME = Value("/h")
    /\ file.status = "toml"
    /\ file.doc.credentials.access_key_id = Field("fk")
    /\ file.doc.credentials.secret_access_key = Field("fs")
    /\ ~file.doc.metadata.present
    /\ result = Failure("toml::de::Error")

BranchOf(c) ==
    CASE c.variant = "None" -> "ListBuckets"
      [] c.variant = "Ls" -> IF HasBucket(c) THEN "ListObjects" ELSE "ListBuckets"
      [] c.variant = "Mv" -> "Move"
      [] c.variant = "Cp" -> "CopyUpload"
      [] c.variant = "Rm" -> "Delete"

\* The calls a finished run has issued, by branch.
CallsPerBranch ==
    CASE BranchOf(command) = "ListBuckets" ->
            Len(calls) = 1 /\ calls[1].op = "list_buckets"
      [] BranchOf(command) = "ListObjects" ->
            Len(calls) = 1 /\ calls[1].op = "list_objects_v2"
            /\ calls[1].bucket = command.bucket
      [] BranchOf(command) = "Delete" ->
            Len(calls) = 1 /\ calls[1].op = "delete_object"
            /\ calls[1].bucket = command.bucket /\ calls[1].key = command.key
      [] BranchOf(command) = "CopyUpload" ->
            Len(calls) <= 1 /\ \A i \in 1..Len(calls) : calls[i].op = "put_object"
      [] BranchOf(command) = "Move" ->
            /\ Len(calls) \in {1, 2}
            /\ calls[1].op = "copy_object"
            /\ Len(calls) = 2 => calls[2].op = "delete_object" /\ calls[1].outcome = "ok"

\* No call is issued twice, a failed call is the last one and ends the run
\* in failure, and a successful run has only successful calls.
NoRetryFirstFailureEnds ==
    /\ Len(branches) <= 1
    /\ \A i \in 1..Len(branches) : branches[i] = BranchOf(command)
    /\ \A i, j \in 1..Len(calls) : calls[i].op = calls[j].op => i = j
    /\ \A i \in 1..Len(calls) :
          calls[i].outcome = "error" =>
             i = Len(calls) /\ result.done /\ ~result.ok /\ pc = "exit"
    /\ (result.done /\ result.ok) =>
          \A i \in 1..Len(calls) : calls[i].outcome = "ok"

(* C10 as stated: every finished run has entered exactly one branch, that   *)
(* of its command, and has issued the calls of that branch: one for         *)
(* ListBuckets, ListObjects and Delete, at most one for CopyUpload, one     *)
(* copy then at most one delete for Move; no call is retried, the first     *)
(* failing call ends the run in failure, and a run succeeds only when all   *)
(* its calls did.                                                           *)
C10_ExactlyOneBranch ==
    /\ NoRetryFirstFailureEnds
    /\ result.done => Len(branches) = 1 /\ CallsPerBranch

(* C10 amended: a run enters at most one branch, the one of its command,    *)
(* exactly one when credential resolution succeeds and none when it fails;  *)
(* no call is issued twice; once finished after a successful resolution,    *)
(* ListBuckets, ListObjects and Delete have issued exactly one call,        *)
(* CopyUpload at most one, Move one copy and then at most one delete; a     *)
(* failed call is the last call of the run and the run has then failed; a   *)
(* run that succeeded has only successful calls.                            *)
C10_OneBranchNoRetry ==
    /\ NoRetryFirstFailureEnds
    /\ (result.done /\ origin # "none") => Len(branches) = 1 /\ CallsPerBranch
    /\ origin = "none" => branches = << >> /\ calls = << >>

C10_Witness ==
    /\ command.variant = "Rm"
    /\ Len(calls) = 1 /\ calls[1].outcome = "error"
    /\ result = Failure("SdkError")

====
